---- MODULE Spec2Model ----
(***************************************************************************)
(* A model of myougiden.py: the regexp cache (get_regex and the two SQL    *)
(* hooks), the connection set-up (opendb), fetch_entry, search_by,         *)
(* guess_search and the command-line run of the __main__ block.            *)
(*                                                                         *)
(* Text is modelled as a sequence of characters; a character is a one      *)
(* element name ("a", "A", " ", ...), "FW_A" and "FW_a" standing for the   *)
(* full-width letters U+FF21 and U+FF41.                                   *)
(***************************************************************************)
EXTENDS Integers, Sequences, FiniteSets, TLC

VARIABLES
    db,            \* the SQLite store: entries, kanjis, readings, senses
    regexp_store,  \* module global regexp_store: pattern text -> compiled regexp
    first_seen,    \* call log: pattern text -> what the first get_regex call returned
    con,           \* the connection: open?, registered regexp hook, LIKE pragma
    argv,          \* the command line as given
    args,          \* the argparse namespace (mutated by the main block)
    pc,            \* position of the main block
    entries,       \* main block's variable `entries`
    out,           \* lines printed so far
    ret            \* the last library call: its arguments and its outcome

vars == <<db, regexp_store, first_seen, con, argv, args, pc, entries, out, ret>>

----------------------------------------------------------------------------
(* Bounds                                                                  *)

MaxQueryLen == 2

----------------------------------------------------------------------------
(* Characters and text                                                     *)

QueryChars == {"a", "A", "FW_A"}

\* Code points, as Python's ord().
Ord(c) ==
    CASE c = " "    -> 32
      [] c = "$"    -> 36
      [] c = "%"    -> 37
      [] c = "A"    -> 65
      [] c = "Z"    -> 90
      [] c = "\\"   -> 92
      [] c = "^"    -> 94
      [] c = "_"    -> 95
      [] c = "a"    -> 97
      [] c = "b"    -> 98
      [] c = "FW_A" -> 65313
      [] c = "FW_a" -> 65345

\* ASCII case folding, as SQLite's built-in LIKE does it.
AsciiLower(c) == IF c = "A" THEN "a" ELSE c

\* Unicode case folding, as re does it under re.U | re.I.
UnicodeLower(c) ==
    CASE c = "A"    -> "a"
      [] c = "FW_A" -> "FW_a"
      [] OTHER      -> c

\* \w under re.U
IsWordChar(c) == c \in {"a", "A", "b", "_", "FW_A", "FW_a"}

SeqsUpTo(S, n) == UNION {[1..k -> S] : k \in 0..n}

\* The queries of a command-line run, and those of the library calls.
Queries == SeqsUpTo(QueryChars, MaxQueryLen)

LibQueries == SeqsUpTo({"a", "A"}, MaxQueryLen)

----------------------------------------------------------------------------
(* re: compiled patterns and their search                                  *)

\* re.compile(pattern, flags): the compiled object, which carries the pattern
\* text and the flag set it was compiled with.
re_compile(pattern, flags) == [pattern |-> pattern, flags |-> flags]

\* The pattern's elements: \b, ^, $ and literal characters.
RECURSIVE Tokens(_)
Tokens(p) ==
    IF p = <<>> THEN <<>>
    ELSE IF Len(p) >= 2 /\ p[1] = "\\" /\ p[2] = "b"
         THEN <<[t |-> "wordb", c |-> ""]>> \o Tokens(SubSeq(p, 3, Len(p)))
    ELSE IF p[1] = "^" THEN <<[t |-> "bol", c |-> ""]>> \o Tokens(Tail(p))
    ELSE IF p[1] = "$" THEN <<[t |-> "eol", c |-> ""]>> \o Tokens(Tail(p))
    ELSE <<[t |-> "lit", c |-> p[1]]>> \o Tokens(Tail(p))

\* \b at position i (the gap before text[i]).
WordBoundary(text, i) ==
    LET before == i > 1 /\ IsWordChar(text[i - 1])
        after  == i <= Len(text) /\ IsWordChar(text[i])
    IN  before # after

CharMatches(flags, pc_, tc) ==
    IF "I" \in flags THEN UnicodeLower(pc_) = UnicodeLower(tc) ELSE pc_ = tc

RECURSIVE MatchHere(_, _, _, _)
MatchHere(flags, toks, text, i) ==
    IF toks = <<>> THEN TRUE
    ELSE LET k == Head(toks) IN
         CASE k.t = "wordb" -> WordBoundary(text, i) /\ MatchHere(flags, Tail(toks), text, i)
           [] k.t = "bol"   -> i = 1 /\ MatchHere(flags, Tail(toks), text, i)
           [] k.t = "eol"   -> i = Len(text) + 1 /\ MatchHere(flags, Tail(toks), text, i)
           [] k.t = "lit"   -> i <= Len(text) /\ CharMatches(flags, k.c, text[i])
                               /\ MatchHere(flags, Tail(toks), text, i + 1)

\* reg.search(field) is not None
re_search(reg, text) ==
    LET toks == Tokens(reg.pattern)
    IN  \E i \in 1..(Len(text) + 1) : MatchHere(reg.flags, toks, text, i)

----------------------------------------------------------------------------
(* SQLite's LIKE: % matches any run of characters, _ any one character;    *)
(* letters compare without ASCII case unless case_sensitive_like is on.    *)

RECURSIVE sql_like(_, _, _)
sql_like(case_sensitive_like, pattern, text) ==
    IF pattern = <<>> THEN text = <<>>
    ELSE IF pattern[1] = "%"
         THEN \E k \in 0..Len(text) :
                  sql_like(case_sensitive_like, Tail(pattern), SubSeq(text, k + 1, Len(text)))
    ELSE /\ text # <<>>
         /\ \/ pattern[1] = "_"
            \/ IF case_sensitive_like = 1 THEN pattern[1] = text[1]
               ELSE AsciiLower(pattern[1]) = AsciiLower(text[1])
         /\ sql_like(case_sensitive_like, Tail(pattern), Tail(text))

----------------------------------------------------------------------------
(* The store.  A child row is [ent_seq, text]; text is the row's kanji,    *)
(* reading or sense column.  entries holds the primary keys.  SQLite       *)
(* leaves the row order of a join to its query planner: plan names the     *)
(* table the join scans in its outer loop.                                 *)

Fields == {"kanji", "reading", "sense"}

JoinPlans == {"child_outer", "entries_outer"}

Row(e, t) == [ent_seq |-> e, text |-> t]

Store1 ==
    [entries  |-> <<1, 2, 3>>,
     kanjis   |-> << Row(1, <<"a", "a">>), Row(2, <<"A">>),
                     Row(1, <<"a", " ", "a">>), Row(4, <<"a">>) >>,
     readings |-> << Row(2, <<"a", "A">>), Row(1, <<"a">>), Row(3, <<"a">>) >>,
     senses   |-> << Row(3, <<"A", "a">>), Row(1, <<"a", " ", "A">>),
                     Row(2, <<"FW_A">>), Row(3, <<"a", " ", "a">>) >>]

Store2 ==
    [entries  |-> <<2, 1>>,
     kanjis   |-> << Row(1, <<"FW_A", "a">>) >>,
     readings |-> << Row(1, <<"A", "A">>), Row(2, <<"a", "a">>), Row(1, <<"a", "A">>) >>,
     senses   |-> << Row(2, <<"A", " ", "a">>), Row(5, <<"A">>) >>]

Stores == {Store1, Store2}

DBs == {[store |-> s, plan |-> p] : s \in Stores, p \in JoinPlans}

Range(s) == {s[i] : i \in 1..Len(s)}

EntryIds == UNION {Range(s.entries) : s \in Stores} \cup {4, 9}

TableRows(d, table) ==
    CASE table = "kanjis"   -> d.store.kanjis
      [] table = "readings" -> d.store.readings
      [] table = "senses"   -> d.store.senses

----------------------------------------------------------------------------
(* get_regex and the SQL hooks                                             *)

EmptyStore == [p \in {} |-> re_compile(<<>>, {})]

Put(f, k, v) == [x \in DOMAIN f \cup {k} |-> IF x = k THEN v ELSE f[x]]

\* A cache keyed by (pattern, flags) in effect: a hit with other flags recompiles.
get_regex_keyed_by_flags(store, pattern, flags) ==
    IF pattern \in DOMAIN store /\ store[pattern].flags = {"U"} \cup flags
    THEN [regexp_store |-> store, value |-> store[pattern]]
    ELSE LET comp == re_compile(pattern, {"U"} \cup flags)
         IN  [regexp_store |-> Put(store, pattern, comp), value |-> comp]

\* get_regex(pattern, flags): the store afterwards and the value returned.
get_regex(store, pattern, flags) ==
    IF pattern \in DOMAIN store
    THEN [regexp_store |-> store, value |-> store[pattern]]
    ELSE LET comp == re_compile(pattern, {"U"} \cup flags)
         IN  [regexp_store |-> Put(store, pattern, comp), value |-> comp]

\* A call of get_regex, entered in the call log the first time a text is seen.
\* py is the interpreter's state: the global regexp_store and the call log.
call_get_regex(py, pattern, flags) ==
    LET r == get_regex(py.regexp_store, pattern, flags)
    IN  [py    |-> [regexp_store |-> r.regexp_store,
                    first_seen   |-> IF pattern \in DOMAIN py.first_seen
                                     THEN py.first_seen
                                     ELSE Put(py.first_seen, pattern, r.value)],
         value |-> r.value]

\* The case-sensitive hook compiled without regard to case, by mistake.
regexp_sensitive_ignoring_case(py, pattern, field) ==
    LET r == call_get_regex(py, pattern, {"I"})
    IN  [py |-> r.py, value |-> re_search(r.value, field)]

regexp_sensitive(py, pattern, field) ==
    LET r == call_get_regex(py, pattern, {})
    IN  [py |-> r.py, value |-> re_search(r.value, field)]

regexp_insensitive(py, pattern, field) ==
    LET r == call_get_regex(py, pattern, {"I"})
    IN  [py |-> r.py, value |-> re_search(r.value, field)]

----------------------------------------------------------------------------
(* opendb                                                                  *)

Closed == [open |-> FALSE, regexp |-> "none", case_sensitive_like |-> 0]

opendb(case_sensitive) ==
    IF case_sensitive
    THEN [open |-> TRUE, regexp |-> "regexp_sensitive", case_sensitive_like |-> 1]
    ELSE [open |-> TRUE, regexp |-> "regexp_insensitive", case_sensitive_like |-> 0]

----------------------------------------------------------------------------
(* fetch_entry                                                             *)

\* cur.execute('SELECT <column> FROM <table> WHERE ent_seq = ?') and the loop
\* over cur.fetchall() that appends row[0].
RECURSIVE select_where_ent_seq(_, _)
select_where_ent_seq(rows, ent_seq) ==
    IF rows = <<>> THEN <<>>
    ELSE (IF Head(rows).ent_seq = ent_seq THEN <<Head(rows).text>> ELSE <<>>)
         \o select_where_ent_seq(Tail(rows), ent_seq)

\* fetch_entry that reads the readings from the kanjis table.
fetch_entry_wrong_table(d, ent_seq) ==
    [kanjis   |-> select_where_ent_seq(d.store.kanjis, ent_seq),
     readings |-> select_where_ent_seq(d.store.kanjis, ent_seq),
     senses   |-> select_where_ent_seq(d.store.senses, ent_seq)]

\* The tuple (kanjis, readings, senses).
fetch_entry(d, ent_seq) ==
    [kanjis   |-> select_where_ent_seq(d.store.kanjis, ent_seq),
     readings |-> select_where_ent_seq(d.store.readings, ent_seq),
     senses   |-> select_where_ent_seq(d.store.senses, ent_seq)]

----------------------------------------------------------------------------
(* search_by                                                               *)

\* Lines 98-103: the local `table`; no branch assigns it for another field.
TableOf(field) ==
    CASE field = "kanji"   -> "kanjis"
      [] field = "reading" -> "readings"
      [] field = "sense"   -> "senses"
      [] OTHER             -> "<unbound>"

\* Lines 105-108.
OperatorOf(regexp) == IF regexp THEN "REGEXP" ELSE "LIKE"

\* The regexp branch testing partial before word.
TransformQuery_partial_first(query, partial, word, regexp) ==
    IF regexp
    THEN IF ~partial THEN <<"^">> \o query \o <<"$">>
         ELSE IF word THEN <<"\\", "b">> \o query \o <<"\\", "b">>
         ELSE query
    ELSE IF word THEN query
         ELSE IF partial THEN <<"%">> \o query \o <<"%">>
         ELSE query

\* The LIKE branch with word ignored altogether.
TransformQuery_word_ignored(query, partial, word, regexp) ==
    IF regexp
    THEN IF word THEN <<"\\", "b">> \o query \o <<"\\", "b">>
         ELSE IF ~partial THEN <<"^">> \o query \o <<"$">>
         ELSE query
    ELSE IF partial THEN <<"%">> \o query \o <<"%">>
         ELSE query

\* Lines 110-119: the query as handed to the statement.
TransformQuery(query, partial, word, regexp) ==
    IF regexp
    THEN IF word THEN <<"\\", "b">> \o query \o <<"\\", "b">>
         ELSE IF ~partial THEN <<"^">> \o query \o <<"$">>
         ELSE query
    ELSE IF word THEN query
         ELSE IF partial THEN <<"%">> \o query \o <<"%">>
         ELSE query

RECURSIVE Concat(_)
Concat(ss) == IF ss = <<>> THEN <<>> ELSE Head(ss) \o Concat(Tail(ss))

RowsOf(rows, e) == SelectSeq(rows, LAMBDA r : r.ent_seq = e)

\* The rows the statement's WHERE clause is evaluated on, in the order the
\* join visits them; joined tells whether entries holds the row's ent_seq.
Candidates(d, table) ==
    LET rows == TableRows(d, table)
        ents == d.store.entries
    IN  IF d.plan = "child_outer"
        THEN [i \in 1..Len(rows) |->
                 [ent_seq |-> rows[i].ent_seq, text |-> rows[i].text,
                  joined  |-> rows[i].ent_seq \in Range(ents)]]
        ELSE Concat([k \in 1..Len(ents) |->
                 LET mine == RowsOf(rows, ents[k])
                 IN  [i \in 1..Len(mine) |->
                         [ent_seq |-> mine[i].ent_seq, text |-> mine[i].text,
                          joined  |-> TRUE]]])

\* <table>.<field> <operator> ? on one row: LIKE is SQLite's own, REGEXP calls
\* the function registered on the connection.
Predicate(py, c, operator, param, text) ==
    IF operator = "LIKE"
    THEN [py |-> py, value |-> sql_like(c.case_sensitive_like, param, text)]
    ELSE IF c.regexp = "regexp_sensitive"
         THEN regexp_sensitive(py, param, text)
         ELSE regexp_insensitive(py, param, text)

\* A SELECT DISTINCT in effect: an entry already in res is not appended again.
RECURSIVE fetchall_distinct(_, _, _, _, _, _)
fetchall_distinct(py, c, operator, param, cands, res) ==
    IF cands = <<>> THEN [py |-> py, items |-> res]
    ELSE LET row == Head(cands)
             t   == Predicate(py, c, operator, param, row.text)
         IN  fetchall_distinct(t.py, c, operator, param, Tail(cands),
                      IF t.value /\ row.joined /\ row.ent_seq \notin Range(res)
                      THEN Append(res, row.ent_seq) ELSE res)

\* The statement's run and the loop over cur.fetchall().
RECURSIVE fetchall(_, _, _, _, _, _)
fetchall(py, c, operator, param, cands, res) ==
    IF cands = <<>> THEN [py |-> py, items |-> res]
    ELSE LET row == Head(cands)
             t   == Predicate(py, c, operator, param, row.text)
         IN  fetchall(t.py, c, operator, param, Tail(cands),
                      IF t.value /\ row.joined THEN Append(res, row.ent_seq) ELSE res)

\* search_by(cur, field, query, partial, word, regexp): what it returns or
\* raises, the statements it executed, and the interpreter state afterwards.
search_by(py, d, c, field, query, partial, word, regexp) ==
    LET table    == TableOf(field)
        operator == OperatorOf(regexp)
        param    == TransformQuery(query, partial, word, regexp)
    IN  IF table = "<unbound>"
        THEN [py |-> py, kind |-> "raise", exc |-> "UnboundLocalError",
              items |-> <<>>, sql |-> <<>>]
        ELSE LET r == fetchall(py, c, operator, param, Candidates(d, table), <<>>)
             IN  [py |-> r.py, kind |-> "list", exc |-> "", items |-> r.items,
                  sql |-> <<[table |-> table, column |-> field,
                             operator |-> operator, param |-> param]>>]

----------------------------------------------------------------------------
(* guess_search                                                            *)

Condition(field, a) ==
    [field |-> field, query |-> a.query, partial |-> a.partial, word |-> a.word,
     regexp |-> a.regexp, case_sensitive |-> a.case_sensitive]

\* The for loop; calls logs each search_by call made and what it gave.
\* Falling off the end of the loop returns None.
RECURSIVE guess_loop(_, _, _, _, _)
guess_loop(py, d, c, conditions, calls) ==
    IF conditions = <<>>
    THEN [py |-> py, kind |-> "None", exc |-> "", items |-> <<>>, calls |-> calls]
    ELSE LET condition == Head(conditions)
             res    == search_by(py, d, c, condition.field, condition.query,
                                 condition.partial, condition.word, condition.regexp)
             calls2 == Append(calls, [condition |-> condition, kind |-> res.kind,
                                      items |-> res.items])
         IN  IF res.kind = "raise"
             THEN [py |-> res.py, kind |-> "raise", exc |-> res.exc, items |-> <<>>,
                   calls |-> calls2]
             ELSE IF Len(res.items) > 0
             THEN [py |-> res.py, kind |-> "list", exc |-> "", items |-> res.items,
                   calls |-> calls2]
             ELSE guess_loop(res.py, d, c, Tail(conditions), calls2)

\* A loop that runs every condition and keeps the first non-empty result.
RECURSIVE guess_loop_no_break(_, _, _, _, _, _)
guess_loop_no_break(py, d, c, conditions, calls, found) ==
    IF conditions = <<>>
    THEN [py |-> py, kind |-> IF found = <<>> THEN "None" ELSE "list", exc |-> "",
          items |-> found, calls |-> calls]
    ELSE LET condition == Head(conditions)
             res    == search_by(py, d, c, condition.field, condition.query,
                                 condition.partial, condition.word, condition.regexp)
             calls2 == Append(calls, [condition |-> condition, kind |-> res.kind,
                                      items |-> res.items])
         IN  IF res.kind = "raise"
             THEN [py |-> res.py, kind |-> "raise", exc |-> res.exc, items |-> <<>>,
                   calls |-> calls2]
             ELSE guess_loop_no_break(res.py, d, c, Tail(conditions), calls2,
                                      IF found = <<>> THEN res.items ELSE found)

guess_search_no_break(py, d, c, conditions) ==
    guess_loop_no_break(py, d, c, conditions, <<>>, <<>>)

guess_search(py, d, c, conditions) == guess_loop(py, d, c, conditions, <<>>)

----------------------------------------------------------------------------
(* The main block                                                          *)

\* re.match in place of re.search: only the first character is looked at.
has_A_to_Z_first_only(query) ==
    query # <<>> /\ Ord("A") <= Ord(query[1]) /\ Ord(query[1]) <= Ord("Z")

\* re.search("[A-Z]", args.query): a character in the code point range A-Z.
has_A_to_Z(query) ==
    \E i \in 1..Len(query) : Ord("A") <= Ord(query[i]) /\ Ord(query[i]) <= Ord("Z")

RECURSIVE join(_, _)
join(sep, strs) ==
    IF strs = <<>> THEN <<>>
    ELSE IF Len(strs) = 1 THEN strs[1]
    ELSE strs[1] \o <<sep>> \o join(sep, Tail(strs))

\* '%s\t%s\t%s' with the full-width semicolon between kanjis and readings.
format_entry_tsv(kanjis, readings, senses) ==
    join("FW_;", kanjis) \o <<"\t">> \o join("FW_;", readings) \o <<"\t">>
        \o join(";", senses)

----------------------------------------------------------------------------
(* State                                                                   *)

Py == [regexp_store |-> regexp_store, first_seen |-> first_seen]

Unset == [kind |-> "unset", items |-> <<>>]

Argvs ==
    [field : Fields \cup {"guess"}, case_sensitive : BOOLEAN, partial : BOOLEAN,
     word : BOOLEAN, regexp : BOOLEAN, query : Queries]

\* The regexps search_by can hand to the hook for one query.
PatternsOf(query) == {TransformQuery(query, pa, w, TRUE) : pa \in BOOLEAN, w \in BOOLEAN}

TextsOf(d) == {d.store.kanjis[i].text : i \in 1..Len(d.store.kanjis)}

\* Condition lists for guess_search: the three fields in any order, and the
\* shorter lists the order kanji, reading, sense gives.
FieldLists ==
    {fs \in [1..3 -> Fields] : \A i, j \in 1..3 : i # j => fs[i] # fs[j]}
    \cup {<<>>, <<"kanji">>, <<"kanji", "reading">>}

LibArgvs ==
    [field : {"guess"}, case_sensitive : {FALSE}, partial : BOOLEAN,
     word : BOOLEAN, regexp : BOOLEAN, query : LibQueries]

----------------------------------------------------------------------------
(* The regexp cache on its own: get_regex and the hooks called directly on *)
(* the patterns of one query, with either flag set, in any order.          *)

InitCache ==
    /\ db = [store |-> Store1, plan |-> "child_outer"]
    /\ regexp_store = EmptyStore
    /\ first_seen = EmptyStore
    /\ con = Closed
    /\ \E q \in Queries :
           argv = [field |-> "guess", case_sensitive |-> FALSE, partial |-> FALSE,
                   word |-> FALSE, regexp |-> TRUE, query |-> q]
    /\ args = argv
    /\ pc = "cache"
    /\ entries = Unset
    /\ out = <<>>
    /\ ret = [op |-> "none"]

CallGetRegex(pattern, flags) ==
    /\ pc = "cache"
    /\ LET r == call_get_regex(Py, pattern, flags)
       IN  /\ regexp_store' = r.py.regexp_store
           /\ first_seen' = r.py.first_seen
           /\ ret' = [op |-> "get_regex", pattern |-> pattern, flags |-> flags,
                      value |-> r.value]
    /\ UNCHANGED <<db, con, argv, args, pc, entries, out>>

CallRegexpSensitive(pattern, field) ==
    /\ pc = "cache"
    /\ LET r == regexp_sensitive(Py, pattern, field)
       IN  /\ regexp_store' = r.py.regexp_store
           /\ first_seen' = r.py.first_seen
           /\ ret' = [op |-> "regexp_sensitive", pattern |-> pattern, field |-> field,
                      value |-> r.value]
    /\ UNCHANGED <<db, con, argv, args, pc, entries, out>>

CallRegexpInsensitive(pattern, field) ==
    /\ pc = "cache"
    /\ LET r == regexp_insensitive(Py, pattern, field)
       IN  /\ regexp_store' = r.py.regexp_store
           /\ first_seen' = r.py.first_seen
           /\ ret' = [op |-> "regexp_insensitive", pattern |-> pattern, field |-> field,
                      value |-> r.value]
    /\ UNCHANGED <<db, con, argv, args, pc, entries, out>>

NextCache ==
    \/ \E p \in PatternsOf(argv.query), f \in SUBSET {"I"} : CallGetRegex(p, f)
    \/ \E p \in PatternsOf(argv.query), t \in TextsOf(db) : CallRegexpSensitive(p, t)
    \/ \E p \in PatternsOf(argv.query), t \in TextsOf(db) : CallRegexpInsensitive(p, t)

SpecCache == InitCache /\ [][NextCache]_vars

----------------------------------------------------------------------------
(* Library calls on a connection: the store, the query and its modifiers   *)
(* are chosen at the start; opendb, search_by, guess_search and            *)
(* fetch_entry are then called in any order.                               *)

Init ==
    /\ db \in DBs
    /\ regexp_store = EmptyStore
    /\ first_seen = EmptyStore
    /\ con = Closed
    /\ argv \in LibArgvs
    /\ args = argv
    /\ pc = "lib"
    /\ entries = Unset
    /\ out = <<>>
    /\ ret = [op |-> "none"]

CallOpendb(case_sensitive) ==
    /\ pc = "lib"
    /\ con' = opendb(case_sensitive)
    /\ ret' = [op |-> "opendb", case_sensitive |-> case_sensitive]
    /\ UNCHANGED <<db, regexp_store, first_seen, argv, args, pc, entries, out>>

CallFetchEntry(ent_seq) ==
    /\ pc = "lib"
    /\ con.open
    /\ ret' = [op |-> "fetch_entry", ent_seq |-> ent_seq, value |-> fetch_entry(db, ent_seq)]
    /\ UNCHANGED <<db, regexp_store, first_seen, con, argv, args, pc, entries, out>>

CallSearchBy(field) ==
    /\ pc = "lib"
    /\ con.open
    /\ LET r == search_by(Py, db, con, field, argv.query, argv.partial, argv.word,
                          argv.regexp)
       IN  /\ regexp_store' = r.py.regexp_store
           /\ first_seen' = r.py.first_seen
           /\ ret' = [op |-> "search_by", field |-> field, query |-> argv.query,
                      partial |-> argv.partial, word |-> argv.word,
                      regexp |-> argv.regexp,
                      kind |-> r.kind, exc |-> r.exc, items |-> r.items, sql |-> r.sql]
    /\ UNCHANGED <<db, con, argv, args, pc, entries, out>>

CallGuessSearch(fields) ==
    /\ pc = "lib"
    /\ con.open
    /\ LET conditions == [i \in 1..Len(fields) |-> Condition(fields[i], argv)]
           r == guess_search(Py, db, con, conditions)
       IN  /\ regexp_store' = r.py.regexp_store
           /\ first_seen' = r.py.first_seen
           /\ ret' = [op |-> "guess_search", conditions |-> conditions,
                      kind |-> r.kind, exc |-> r.exc, items |-> r.items,
                      calls |-> r.calls]
    /\ UNCHANGED <<db, con, argv, args, pc, entries, out>>

Next ==
    \/ \E cs \in BOOLEAN : CallOpendb(cs)
    \/ \E e \in EntryIds : CallFetchEntry(e)
    \/ \E f \in Fields \cup {"foo"} : CallSearchBy(f)
    \/ \E fs \in FieldLists : CallGuessSearch(fs)

Spec == Init /\ [][Next]_vars

----------------------------------------------------------------------------
(* One command-line run: the __main__ block, statement by statement, in a  *)
(* fresh interpreter.                                                      *)

NoArgs ==
    [field |-> "", case_sensitive |-> FALSE, partial |-> FALSE, word |-> FALSE,
     regexp |-> FALSE, query |-> <<>>]

InitCLI ==
    /\ db \in DBs
    /\ regexp_store = EmptyStore
    /\ first_seen = EmptyStore
    /\ con = Closed
    /\ argv \in Argvs
    /\ args = NoArgs
    /\ pc = "parse_args"
    /\ entries = Unset
    /\ out = <<>>
    /\ ret = [op |-> "none"]

\* Line 189: args = ap.parse_args()
ParseArgs ==
    /\ pc = "parse_args"
    /\ args' = argv
    /\ pc' = "detect_case"
    /\ UNCHANGED <<db, regexp_store, first_seen, con, argv, entries, out, ret>>

\* Lines 197-199
DetectCase ==
    /\ pc = "detect_case"
    /\ args' = IF ~args.case_sensitive /\ has_A_to_Z(args.query)
               THEN [args EXCEPT !.case_sensitive = TRUE]
               ELSE args
    /\ pc' = "opendb"
    /\ UNCHANGED <<db, regexp_store, first_seen, con, argv, entries, out, ret>>

\* Line 201
OpenDb ==
    /\ pc = "opendb"
    /\ con' = opendb(args.case_sensitive)
    /\ pc' = "search"
    /\ ret' = [op |-> "opendb", case_sensitive |-> args.case_sensitive]
    /\ UNCHANGED <<db, regexp_store, first_seen, argv, args, entries, out>>

\* Lines 203-204
SearchField ==
    /\ pc = "search"
    /\ args.field # "guess"
    /\ LET r == search_by(Py, db, con, args.field, args.query, args.partial, args.word,
                          args.regexp)
       IN  /\ regexp_store' = r.py.regexp_store
           /\ first_seen' = r.py.first_seen
           /\ entries' = [kind |-> r.kind, items |-> r.items]
           /\ ret' = [op |-> "search_by", field |-> args.field, query |-> args.query,
                      partial |-> args.partial, word |-> args.word,
                      regexp |-> args.regexp,
                      kind |-> r.kind, exc |-> r.exc, items |-> r.items, sql |-> r.sql]
           /\ pc' = IF r.kind = "raise" THEN "crashed" ELSE "print"
    /\ UNCHANGED <<db, con, argv, args, out>>

\* Lines 205-217
SearchGuess ==
    /\ pc = "search"
    /\ args.field = "guess"
    /\ LET conditions == << Condition("kanji", args), Condition("reading", args),
                            Condition("sense", args) >>
           r == guess_search(Py, db, con, conditions)
       IN  /\ regexp_store' = r.py.regexp_store
           /\ first_seen' = r.py.first_seen
           /\ entries' = [kind |-> r.kind, items |-> r.items]
           /\ ret' = [op |-> "guess_search", conditions |-> conditions,
                      kind |-> r.kind, exc |-> r.exc, items |-> r.items,
                      calls |-> r.calls]
           /\ pc' = IF r.kind = "raise" THEN "crashed" ELSE "print"
    /\ args' = [args EXCEPT !.field = "sense"]
    /\ UNCHANGED <<db, con, argv, out>>

\* Lines 219-220: iterating over None raises TypeError.
PrintEntries ==
    /\ pc = "print"
    /\ IF entries.kind = "list"
       THEN /\ out' = out \o [i \in 1..Len(entries.items) |->
                                 LET row == fetch_entry(db, entries.items[i])
                                 IN  format_entry_tsv(row.kanjis, row.readings, row.senses)]
            /\ pc' = "done"
            /\ ret' = ret
       ELSE /\ out' = out
            /\ pc' = "crashed"
            /\ ret' = [op |-> "uncaught", exc |-> "TypeError"]
    /\ UNCHANGED <<db, regexp_store, first_seen, con, argv, args, entries>>

NextCLI ==
    \/ ParseArgs
    \/ DetectCase
    \/ OpenDb
    \/ SearchField
    \/ SearchGuess
    \/ PrintEntries

SpecCLI == InitCLI /\ [][NextCLI]_vars

----------------------------------------------------------------------------
(* Properties                                                              *)

Count(items, e) == Cardinality({i \in 1..Len(items) : items[i] = e})

Wrapped(l, q, r) == l \o q \o r

\* What search_by gives for a condition in the current state.
ResultOf(condition) ==
    search_by(Py, db, con, condition.field, condition.query, condition.partial,
              condition.word, condition.regexp).items

\* C1: guess_search calls search_by on the conditions in list order, stops at
\* the first call whose result is non-empty and returns exactly that result,
\* in its order; no condition after it is searched.
C1_GuessFirstNonEmpty ==
    ret.op = "guess_search" =>
        LET n == Len(ret.calls)
        IN  /\ n <= Len(ret.conditions)
            /\ \A i \in 1..n : /\ ret.calls[i].condition = ret.conditions[i]
                               /\ ret.calls[i].items = ResultOf(ret.conditions[i])
            /\ \A i \in 1..(n - 1) : ret.calls[i].items = <<>>
            /\ IF n > 0 /\ ret.calls[n].items # <<>>
               THEN ret.kind = "list" /\ ret.items = ret.calls[n].items
               ELSE n = Len(ret.conditions)

\* The first search is empty, the second gives two or more ids and is what is
\* returned, and the third, which would have matched, was never run.
C1_Witness ==
    /\ ret.op = "guess_search"
    /\ Len(ret.conditions) = 3
    /\ Len(ret.calls) = 2
    /\ ret.calls[1].items = <<>>
    /\ Len(ret.items) >= 2
    /\ ret.items[1] # ret.items[2]
    /\ ResultOf(ret.conditions[3]) # <<>>

\* C2: when every condition gives an empty result guess_search returns an
\* empty sequence, and the caller's loop over it ends normally.
C2_AllEmptyGivesEmptyList ==
    /\ (/\ ret.op = "guess_search"
        /\ Len(ret.calls) = Len(ret.conditions)
        /\ \A i \in 1..Len(ret.calls) : ret.calls[i].items = <<>>)
           => (ret.kind = "list" /\ ret.items = <<>>)
    /\ pc # "crashed"

\* C3: search_by with a field outside kanji, reading, sense raises
\* UnknownField before any statement is executed.
C3_UnknownFieldRaises ==
    (ret.op = "search_by" /\ ret.field \notin Fields) =>
        (ret.kind = "raise" /\ ret.exc = "UnknownField" /\ ret.sql = <<>>)

C4_CacheState ==
    /\ \A p \in DOMAIN first_seen :
           p \in DOMAIN regexp_store /\ regexp_store[p] = first_seen[p]
    /\ ret.op = "get_regex" =>
           /\ ret.value = first_seen[ret.pattern]
           /\ ret.value.pattern = ret.pattern

C4_EntriesKept ==
    \A p \in DOMAIN regexp_store :
        p \in DOMAIN regexp_store' /\ regexp_store'[p] = regexp_store[p]

\* C4: the cache is keyed by pattern text only: get_regex returns what the
\* first call for that text returned, whatever the flags, and an entry once
\* stored is never replaced or removed.
C4_CacheKeyedByText == [](C4_CacheState) /\ [][C4_EntriesKept]_vars

\* get_regex was called with the case-insensitive flag on a text first
\* compiled case-sensitive, and returned the case-sensitive object.
C4_Witness ==
    /\ ret.op = "get_regex"
    /\ ret.flags = {"I"}
    /\ ret.value.flags = {"U"}
    /\ Cardinality(DOMAIN regexp_store) >= 2

\* C5: in regexp mode the operator is REGEXP and the pattern is \bq\b when
\* word is set, whatever partial; else ^q$ when partial is not set; else q.
C5_RegexpPattern ==
    (ret.op = "search_by" /\ ret.regexp /\ ret.field \in Fields) =>
        /\ Len(ret.sql) = 1
        /\ ret.sql[1].operator = "REGEXP"
        /\ ret.word => ret.sql[1].param = Wrapped(<<"\\", "b">>, ret.query, <<"\\", "b">>)
        /\ (~ret.word /\ ~ret.partial) =>
               ret.sql[1].param = Wrapped(<<"^">>, ret.query, <<"$">>)
        /\ (~ret.word /\ ret.partial) => ret.sql[1].param = ret.query

\* A regexp search with word and partial both set.
C5_Witness ==
    /\ ret.op = "search_by"
    /\ ret.field \in Fields
    /\ ret.regexp /\ ret.word /\ ret.partial
    /\ ret.query # <<>>
    /\ ret.items # <<>>

IsUppercaseLetter(c) == c \in {"A", "FW_A"}

AsciiUppercase ==
    {"A", "B", "C", "D", "E", "F", "G", "H", "I", "J", "K", "L", "M",
     "N", "O", "P", "Q", "R", "S", "T", "U", "V", "W", "X", "Y", "Z"}

Sensitive == [open |-> TRUE, regexp |-> "regexp_sensitive", case_sensitive_like |-> 1]

Insensitive == [open |-> TRUE, regexp |-> "regexp_insensitive", case_sensitive_like |-> 0]

\* C7 as stated: without --case-sensitive the connection is case-sensitive
\* exactly when the query holds an uppercase letter; with it, always; the
\* mode sets the regexp hook and the LIKE pragma together.
C7_SensitiveIffUppercase ==
    con.open =>
        con = IF argv.case_sensitive
                 \/ \E i \in 1..Len(argv.query) : IsUppercaseLetter(argv.query[i])
              THEN Sensitive ELSE Insensitive

\* C7 amended: without --case-sensitive the connection is case-sensitive
\* exactly when the query holds one of the ASCII letters A to Z; with it,
\* always; the mode sets the regexp hook and the LIKE pragma together.
C7_SensitiveIffAsciiUppercase ==
    con.open =>
        con = IF argv.case_sensitive
                 \/ \E i \in 1..Len(argv.query) : argv.query[i] \in AsciiUppercase
              THEN Sensitive ELSE Insensitive

\* Opened case-sensitive on the strength of an uppercase letter that is not
\* the query's first character.
C7_Witness ==
    /\ con = Sensitive
    /\ ~argv.case_sensitive
    /\ Len(argv.query) >= 2
    /\ argv.query[1] = "a"

RowIndexes(rows, e) == {i \in 1..Len(rows) : rows[i].ent_seq = e}

\* values holds, for every row of ent_seq e, that row's text, at the row's
\* rank among the rows of e, and nothing else.
ExactlyRowsOf(values, rows, e) ==
    /\ Len(values) = Cardinality(RowIndexes(rows, e))
    /\ \A i \in RowIndexes(rows, e) :
           values[Cardinality({j \in RowIndexes(rows, e) : j <= i})] = rows[i].text

C8_FetchedRows ==
    ret.op = "fetch_entry" =>
        /\ ExactlyRowsOf(ret.value.kanjis, db.store.kanjis, ret.ent_seq)
        /\ ExactlyRowsOf(ret.value.readings, db.store.readings, ret.ent_seq)
        /\ ExactlyRowsOf(ret.value.senses, db.store.senses, ret.ent_seq)

C8_StoreKept == ret'.op = "fetch_entry" => db' = db

\* C8: fetch_entry returns exactly the rows of kanjis, readings and senses
\* whose ent_seq is the one asked for, each table on its own and in storage
\* order, an empty sequence where there is none, and leaves the store as it
\* was.
C8_FetchEntry == [](C8_FetchedRows) /\ [][C8_StoreKept]_vars

\* An entry with one kanji, one reading and one sense was fetched, from a
\* store that holds rows of other entries in all three tables.
C8_Witness ==
    /\ ret.op = "fetch_entry"
    /\ Len(ret.value.kanjis) = 1
    /\ Len(ret.value.readings) = 1
    /\ Len(ret.value.senses) = 1
    /\ Len(db.store.kanjis) > 1
    /\ ret.value.kanjis # ret.value.readings

\* Whether the statement's predicate holds of a text, in the current state.
Matches(sql, text) ==
    IF sql.operator = "LIKE"
    THEN sql_like(con.case_sensitive_like, sql.param, text)
    ELSE /\ sql.param \in DOMAIN regexp_store
         /\ re_search(regexp_store[sql.param], text)

AllIds(d) ==
    Range(d.store.entries)
        \cup {d.store.kanjis[i].ent_seq : i \in 1..Len(d.store.kanjis)}
        \cup {d.store.readings[i].ent_seq : i \in 1..Len(d.store.readings)}
        \cup {d.store.senses[i].ent_seq : i \in 1..Len(d.store.senses)}

\* C9: search_by returns one id per matching row of the chosen table whose
\* entry is in entries, duplicates kept: an entry with n matching rows is
\* there n times, one with none or with no row in entries is not there.
C9_OneIdPerMatchingRow ==
    (ret.op = "search_by" /\ ret.field \in Fields) =>
        LET rows == TableRows(db, TableOf(ret.field))
        IN  /\ ret.kind = "list"
            /\ ret.sql[1].table = TableOf(ret.field)
            /\ \A e \in Range(ret.items) \cup AllIds(db) :
                   Count(ret.items, e) =
                       IF e \in Range(db.store.entries)
                       THEN Cardinality({i \in RowIndexes(rows, e) :
                                            Matches(ret.sql[1], rows[i].text)})
                       ELSE 0

\* An entry is in the result twice, and a matching row of an id that is not
\* in entries gave nothing.
C9_Witness ==
    /\ ret.op = "search_by"
    /\ ret.field = "kanji"
    /\ \E e \in Range(ret.items) : Count(ret.items, e) = 2
    /\ \E i \in 1..Len(db.store.kanjis) :
           /\ Matches(ret.sql[1], db.store.kanjis[i].text)
           /\ db.store.kanjis[i].ent_seq \notin Range(db.store.entries)
           /\ db.store.kanjis[i].ent_seq \notin Range(ret.items)

C10_CacheFollowsConnection ==
    /\ ~con.open => regexp_store = EmptyStore
    /\ con.open =>
           /\ con = IF args.case_sensitive THEN Sensitive ELSE Insensitive
           /\ \A p \in DOMAIN regexp_store :
                  regexp_store[p].flags =
                      IF con.case_sensitive_like = 1 THEN {"U"} ELSE {"U", "I"}

C10_ConnectionKept == con.open => con' = con

\* C10: in one command-line run the connection is opened once with one of the
\* two hooks, keeps its case mode at every search, and every pattern in the
\* cache was compiled with the flags of that mode.
C10_OneModePerRun == [](C10_CacheFollowsConnection) /\ [][C10_ConnectionKept]_vars

\* A guess run that searched all three fields by regexp on a case-sensitive
\* connection and printed something.
C10_Witness ==
    /\ pc = "done"
    /\ ret.op = "guess_search"
    /\ Len(ret.calls) = 3
    /\ con = Sensitive
    /\ regexp_store # EmptyStore
    /\ out # <<>>

====
